---------------------------- MODULE Spec2Model ----------------------------
(***************************************************************************)
(* KrishiMitra AI (src/app.py): the rule-based NLU stage                   *)
(* (IndicBERTProcessor) and the retrieval/response stage (RAGEngine).      *)
(*                                                                         *)
(* A text is a sequence of characters.  An ASCII character is the          *)
(* one-character string; any other code point is the string "U" followed   *)
(* by its four hexadecimal digits ("U0917" is DEVANAGARI LETTER GA).       *)
(* A Python dict is a function whose DOMAIN is the set of keys present; a  *)
(* dict whose iteration order matters is a sequence of entries.            *)
(* A Python float is an IEEE-754 double, kept exactly (see Dbl below).     *)
(***************************************************************************)
EXTENDS Integers, Sequences, FiniteSets, TLC

VARIABLES
    intent_patterns,   \* IndicBERTProcessor.intent_patterns
    knowledge_base,    \* RAGEngine.knowledge_base (list leaves are heap addresses)
    heap,              \* the list objects: address -> sequence
    call,              \* the direct call in progress: operation, arguments, result
    req                \* the pipeline requests in flight, one per slot

vars == <<intent_patterns, knowledge_base, heap, call, req>>

----------------------------------------------------------------------------
(* Characters and strings *)

RECURSIVE CharsFrom(_, _)
CharsFrom(str, i) ==
    IF i > Len(str) THEN <<>> ELSE <<SubSeq(str, i, i)>> \o CharsFrom(str, i + 1)

\* the characters of an ASCII string
Chars(str) == CharsFrom(str, 1)

RECURSIVE StrOf(_)
StrOf(cs) == IF cs = <<>> THEN "" ELSE Head(cs) \o StrOf(Tail(cs))

UpperLetters == Chars("ABCDEFGHIJKLMNOPQRSTUVWXYZ")
LowerLetters == Chars("abcdefghijklmnopqrstuvwxyz")
Digits == {"0", "1", "2", "3", "4", "5", "6", "7", "8", "9"}
HexDigits == Digits \cup {"A", "B", "C", "D", "E", "F"}

\* [ऀ-ॿ]
DevanagariBlock == {"U09" \o h \o l : h \in {"0", "1", "2", "3", "4", "5", "6", "7"}, l \in HexDigits}
\* [a-zA-Z]
LatinLetters == {UpperLetters[i] : i \in 1..26} \cup {LowerLetters[i] : i \in 1..26}
\* \s among the characters of the inputs
Whitespace == {" "}

ToLower == [c \in {UpperLetters[i] : i \in 1..26} |->
               LowerLetters[CHOOSE i \in 1..26 : UpperLetters[i] = c]]
ToUpper == [c \in {LowerLetters[i] : i \in 1..26} |->
               UpperLetters[CHOOSE i \in 1..26 : LowerLetters[i] = c]]

LowerChar(c) == IF c \in DOMAIN ToLower THEN ToLower[c] ELSE c
UpperChar(c) == IF c \in DOMAIN ToUpper THEN ToUpper[c] ELSE c

\* str.lower(), character by character
RECURSIVE LowerFrom(_, _)
LowerFrom(text, i) ==
    IF i > Len(text) THEN <<>> ELSE <<LowerChar(text[i])>> \o LowerFrom(text, i + 1)

lower(text) == LowerFrom(text, 1)

Min(S) == CHOOSE x \in S : \A y \in S : x <= y

----------------------------------------------------------------------------
(* The regular expressions of the source: alternations of literals *)

\* the alternatives of 'a|b|c', in order: `from` is where the current
\* alternative starts, i the character looked at
RECURSIVE AlternativesFrom(_, _, _)
AlternativesFrom(pattern, from, i) ==
    IF i > Len(pattern) THEN <<SubSeq(pattern, from, Len(pattern))>>
    ELSE IF pattern[i] = "|"
    THEN <<SubSeq(pattern, from, i - 1)>> \o AlternativesFrom(pattern, i + 1, i + 1)
    ELSE AlternativesFrom(pattern, from, i + 1)

Alternatives(pattern) == AlternativesFrom(pattern, 1, 1)

StartsAt(lit, s, i) ==
    /\ i + Len(lit) - 1 <= Len(s)
    /\ \A j \in 1..Len(lit) : s[i + j - 1] = lit[j]

\* length of the match of the alternation at position i (first alternative
\* that matches wins), 0 when none matches
RECURSIVE MatchLenFrom(_, _, _, _)
MatchLenFrom(alts, s, i, k) ==
    IF k > Len(alts) THEN 0
    ELSE IF StartsAt(alts[k], s, i) THEN Len(alts[k])
    ELSE MatchLenFrom(alts, s, i, k + 1)

MatchLen(alts, s, i) == MatchLenFrom(alts, s, i, 1)

\* len(re.findall(pattern, s)): leftmost non-overlapping matches
RECURSIVE CountFrom(_, _, _)
CountFrom(alts, s, i) ==
    IF i > Len(s) THEN 0
    ELSE IF MatchLen(alts, s, i) > 0 THEN 1 + CountFrom(alts, s, i + MatchLen(alts, s, i))
    ELSE CountFrom(alts, s, i + 1)

findall_len(pattern, s) == CountFrom(Alternatives(pattern), s, 1)

SearchAlts(alts, s) == \E i \in 1..Len(s) : MatchLen(alts, s, i) > 0

\* re.search(pattern, s) is not None
search(pattern, s) == SearchAlts(Alternatives(pattern), s)

----------------------------------------------------------------------------
(* IEEE-754 doubles.  A double in [0, 16) that is a multiple of 2^-54 is    *)
(* the pair [hi, lo] standing for (hi * 2^27 + lo) * 2^-54; every value the *)
(* program computes from 0.3 is one.  Round is round-to-nearest-even to 53  *)
(* significant bits.                                                        *)

Limb == 2^27

BitLen(n) ==
    IF n = 0 THEN 0
    ELSE IF n >= 2^30 THEN 31
    ELSE Min({k \in 1..30 : n < 2^k})

Norm(hi, lo) == [hi |-> hi + (lo \div Limb), lo |-> lo % Limb]

Round(hi, lo) ==
    LET n == Norm(hi, lo)
        s == IF BitLen(n.hi) > 26 THEN BitLen(n.hi) - 26 ELSE 0
        r == n.lo % (2^s)
        odd == (n.lo \div (2^s)) % 2 = 1
        half == 2^(s - 1)
        up == r > half \/ (r = half /\ odd)
    IN  IF s = 0 THEN n
        ELSE Norm(n.hi, n.lo - r + (IF up THEN 2^s ELSE 0))

DMul(m, d) == Round(m * d.hi, m * d.lo)      \* int * float
DAdd(a, b) == Round(a.hi + b.hi, a.lo + b.lo)
DLess(a, b) == a.hi < b.hi \/ (a.hi = b.hi /\ a.lo < b.lo)
DLeq(a, b) == a = b \/ DLess(a, b)
\* mutation of DMin: the score is not capped
DMinUncapped(a, b) == a
DMin(a, b) == IF DLess(b, a) THEN b ELSE a   \* min(a, b)

D0 == [hi |-> 0, lo |-> 0]                        \* 0
D0_3 == [hi |-> 40265318, lo |-> 53687091]        \* 0.3
D0_5 == [hi |-> 67108864, lo |-> 0]               \* 0.5
D0_8 == [hi |-> 107374182, lo |-> 53687092]       \* 0.8
D0_85 == [hi |-> 114085068, lo |-> 107374182]     \* 0.85
D0_9 == [hi |-> 120795955, lo |-> 26843546]       \* 0.9
D1 == [hi |-> 134217728, lo |-> 0]                \* 1.0

----------------------------------------------------------------------------
(* IndicBERTProcessor *)

Entry(k, v) == [key |-> k, value |-> v]

\* the dict built in __init__, in insertion order
IntentPatternTable == <<
    Entry("weather", <<Chars("barish|rain|mausam|weather|paani|water|baarish"),
                       Chars("humidity|temperature|wind|climate")>>),
    Entry("irrigation", <<Chars("sinchai|irrigation|paani dena|watering"),
                          Chars("kab paani de|when to water|irrigation timing")>>),
    Entry("market", <<Chars("mandi|price|rate|bhav|market|sell|bechna"),
                      Chars("commodity price|market rate|selling price")>>),
    Entry("fertilizer", <<Chars("khad|fertilizer|urvarak|nutrients|manure"),
                          Chars("NPK|urea|phosphate|potash|organic")>>),
    Entry("pest", <<Chars("keeda|pest|insect|disease|bimari|fungus"),
                    Chars("crop disease|plant protection|pesticide")>>),
    Entry("scheme", <<Chars("yojana|scheme|subsidy|government|sarkar"),
                      Chars("loan|credit|insurance|financial help")>>),
    Entry("crop", <<Chars("fasal|crop|bija|seed|planting|cultivation"),
                    Chars("sowing|harvesting|crop calendar|variety")>>) >>

\* Detect language of input text
detect_language(text) ==
    LET hindi_chars == {i \in 1..Len(text) : text[i] \in DevanagariBlock}
        english_chars == {i \in 1..Len(text) : text[i] \in LatinLetters}
    IN  IF Cardinality(hindi_chars) > Cardinality(english_chars) THEN "hi"
        ELSE IF Cardinality(english_chars) > 0 THEN "en"
        ELSE "hi"

\* the inner loop: score = 0; for pattern in patterns: score += matches * 0.3
RECURSIVE PatternScore(_, _, _)
PatternScore(patterns, text_lower, score) ==
    IF patterns = <<>> THEN score
    ELSE PatternScore(Tail(patterns), text_lower,
                      DAdd(score, DMul(findall_len(Head(patterns), text_lower), D0_3)))

\* the outer loop: intent_scores, in the insertion order of intent_patterns
RECURSIVE IntentScores(_, _)
IntentScores(patterns_dict, text_lower) ==
    IF patterns_dict = <<>> THEN <<>>
    ELSE <<Entry(Head(patterns_dict).key, PatternScore(Head(patterns_dict).value, text_lower, D0))>>
         \o IntentScores(Tail(patterns_dict), text_lower)

\* max(values): the largest of m and the values
RECURSIVE MaxScoreFrom(_, _)
MaxScoreFrom(intent_scores, m) ==
    IF intent_scores = <<>> THEN m
    ELSE MaxScoreFrom(Tail(intent_scores),
                      IF DLess(m, Head(intent_scores).value) THEN Head(intent_scores).value ELSE m)

MaxScore(intent_scores) == MaxScoreFrom(Tail(intent_scores), Head(intent_scores).value)

\* the first key, in iteration order, whose value is m
RECURSIVE FirstKeyWith(_, _)
FirstKeyWith(intent_scores, m) ==
    IF Head(intent_scores).value = m THEN Head(intent_scores).key
    ELSE FirstKeyWith(Tail(intent_scores), m)

\* max(intent_scores, key=intent_scores.get): the first key, in iteration
\* order, whose value is the largest
MaxKey(intent_scores) == FirstKeyWith(intent_scores, MaxScore(intent_scores))

ScoreOf(intent_scores, intent) ==
    intent_scores[CHOOSE k \in 1..Len(intent_scores) : intent_scores[k].key = intent].value

\* mutation of BestIntent: a single occurrence does not count as a match
BestIntentAboveOne(intent_scores) ==
    IF intent_scores = <<>> \/ DLeq(MaxScore(intent_scores), D0_3)
    THEN <<"general", D0_5>>
    ELSE <<MaxKey(intent_scores), DMin(ScoreOf(intent_scores, MaxKey(intent_scores)), D1)>>

\* the part of extract_intent after the scoring loop
BestIntent(intent_scores) ==
    IF intent_scores = <<>> \/ MaxScore(intent_scores) = D0
    THEN <<"general", D0_5>>
    ELSE <<MaxKey(intent_scores), DMin(ScoreOf(intent_scores, MaxKey(intent_scores)), D1)>>

\* Extract intent from user query with confidence score
extract_intent(patterns_dict, text) == BestIntent(IntentScores(patterns_dict, lower(text)))

\* the dict `crops` of extract_entities, in insertion order
crops == <<
    Entry("wheat", Chars("gehun|wheat|") \o <<"U0917", "U0947", "U0939", "U0942", "U0902">>),
    Entry("rice", Chars("chawal|rice|") \o <<"U0927", "U093E", "U0928">> \o Chars("|")
                      \o <<"U091A", "U093E", "U0935", "U0932">>),
    Entry("cotton", Chars("kapas|cotton|") \o <<"U0915", "U092A", "U093E", "U0938">>),
    Entry("sugarcane", Chars("ganna|sugarcane|") \o <<"U0917", "U0928", "U094D", "U0928", "U093E">>),
    Entry("potato", Chars("aloo|potato|") \o <<"U0906", "U0932", "U0942">>),
    Entry("tomato", Chars("tamatar|tomato|") \o <<"U091F", "U092E", "U093E", "U091F", "U0930">>),
    Entry("onion", Chars("pyaz|onion|") \o <<"U092A", "U094D", "U092F", "U093E", "U091C">>) >>

\* the dict `locations` of extract_entities, in insertion order
locations == <<
    Entry("delhi", Chars("delhi|") \o <<"U0926", "U093F", "U0932", "U094D", "U0932", "U0940">>),
    Entry("punjab", Chars("punjab|") \o <<"U092A", "U0902", "U091C", "U093E", "U092C">>),
    Entry("haryana", Chars("haryana|")
                      \o <<"U0939", "U0930", "U093F", "U092F", "U093E", "U0923", "U093E">>),
    Entry("up", Chars("uttar pradesh|up|") \o <<"U0909", "U0924", "U094D", "U0924", "U0930">>
                      \o Chars(" ") \o <<"U092A", "U094D", "U0930", "U0926", "U0947", "U0936">>),
    Entry("bihar", Chars("bihar|") \o <<"U092C", "U093F", "U0939", "U093E", "U0930">>),
    Entry("maharashtra", Chars("maharashtra|")
                      \o <<"U092E", "U0939", "U093E", "U0930", "U093E", "U0937", "U094D",
                           "U091F", "U094D", "U0930">>) >>

\* mutation of FirstMatch: the loop without its break, the last match wins
RECURSIVE FirstMatchNoBreak(_, _)
FirstMatchNoBreak(table, text) ==
    IF table = <<>> THEN <<>>
    ELSE IF FirstMatchNoBreak(Tail(table), text) # <<>> THEN FirstMatchNoBreak(Tail(table), text)
    ELSE IF search(Head(table).value, lower(text)) THEN <<Head(table).key>>
    ELSE <<>>

\* for key, pattern in table.items(): if re.search(pattern, text.lower()): ...; break
\* <<key>> of the first entry whose pattern occurs, <<>> when none does
RECURSIVE FirstMatch(_, _)
FirstMatch(table, text) ==
    IF table = <<>> THEN <<>>
    ELSE IF search(Head(table).value, lower(text)) THEN <<Head(table).key>>
    ELSE FirstMatch(Tail(table), text)

\* \d among the characters of the inputs: the ASCII and the Devanagari digits
DecimalDigits ==
    Digits \cup {"U0966", "U0967", "U0968", "U0969", "U096A",
                 "U096B", "U096C", "U096D", "U096E", "U096F"}

units == <<Chars("kg"), Chars("quintal"), Chars("ton"), Chars("acre"), Chars("hectare")>>

\* the longest run of characters of `class` starting at i ends before RunEnd
RECURSIVE RunEnd(_, _, _)
RunEnd(s, i, class) ==
    IF i <= Len(s) /\ s[i] \in class THEN RunEnd(s, i + 1, class) ELSE i

\* the groups of a match whose digits are s[i..j-1] and whose unit, n long,
\* starts at k; <<>> when there is no digit or no unit
Groups(s, i, j, k, n) ==
    IF j > i /\ n > 0 THEN <<SubSeq(s, i, j - 1), SubSeq(s, k, k + n - 1)>> ELSE <<>>

UnitAt(s, i, j, k) == Groups(s, i, j, k, MatchLen(units, s, k))
SpaceAt(s, i, j) == UnitAt(s, i, j, RunEnd(s, j, Whitespace))

\* (\d+)\s*(kg|quintal|ton|acre|hectare) matched at position i: the groups, or <<>>
QuantityAt(s, i) == SpaceAt(s, i, RunEnd(s, i, DecimalDigits))

RECURSIVE QuantityFrom(_, _)
QuantityFrom(s, i) ==
    IF i > Len(s) THEN <<>>
    ELSE IF s[i] \in DecimalDigits /\ QuantityAt(s, i) # <<>> THEN QuantityAt(s, i)
    ELSE QuantityFrom(s, i + 1)

\* re.search(r'(\d+)\s*(kg|quintal|ton|acre|hectare)', s): the leftmost match
quantity_match(s) == QuantityFrom(s, 1)

\* d[k] = v
Put(d, k, v) == (k :> v) @@ d

EmptyDict == <<>>

\* if found: entities[key] = value
WithFirst(entities, key, found) ==
    IF found # <<>> THEN Put(entities, key, found[1]) ELSE entities

\* if quantity_match: entities['quantity'] = group(1); entities['unit'] = group(2)
WithQuantity(entities, qm) ==
    IF qm # <<>>
    THEN Put(Put(entities, "quantity", StrOf(qm[1])), "unit", StrOf(qm[2]))
    ELSE entities

\* Extract entities like crop, location, quantity from text
extract_entities(text) ==
    WithQuantity(
        WithFirst(WithFirst(EmptyDict, "crop", FirstMatch(crops, text)),
                  "location", FirstMatch(locations, text)),
        quantity_match(lower(text)))

----------------------------------------------------------------------------
(* RAGEngine.  In a string, a non-ASCII code point is written <U+XXXX>.    *)

\* the list objects of the knowledge base live at <<0, name>>; the lists a
\* request creates live at <<slot, name>>
KB == 0

\* _load_knowledge_base: the dict, its lists given by address
KnowledgeBaseTable == [
    crops |-> [
        wheat |-> [
            sowing_season |-> "Rabi (October-December)",
            harvesting |-> "April-May",
            water_requirement |-> "Medium (4-6 irrigations)",
            fertilizer |-> "NPK 120:60:40 kg/hectare",
            varieties |-> <<KB, "wheat.varieties">>,
            diseases |-> <<KB, "wheat.diseases">>,
            ideal_temp |-> "15-25<U+00B0>C",
            soil_ph |-> "6.0-7.5" ],
        rice |-> [
            sowing_season |-> "Kharif (May-July)",
            harvesting |-> "October-December",
            water_requirement |-> "High (standing water)",
            fertilizer |-> "NPK 100:50:50 kg/hectare",
            varieties |-> <<KB, "rice.varieties">>,
            diseases |-> <<KB, "rice.diseases">>,
            ideal_temp |-> "20-35<U+00B0>C",
            soil_ph |-> "5.5-7.0" ] ],
    weather_guidelines |-> [
        irrigation |-> <<
            Entry("high_humidity", "Delay irrigation if humidity >80%"),
            Entry("rainfall_expected", "Skip irrigation if rain expected within 24 hours"),
            Entry("temperature", "Best irrigation time: early morning or evening") >>,
        spraying |-> <<
            Entry("wind_speed", "Avoid spraying if wind speed >10 km/h"),
            Entry("temperature", "Spray when temperature <30<U+00B0>C"),
            Entry("humidity", "Best humidity range: 60-80%") >> ],
    market_insights |-> [
        price_factors |-> <<KB, "price_factors">>,
        selling_tips |-> <<KB, "selling_tips">> ] ]

\* _load_knowledge_base: the contents of its lists
KnowledgeBaseLists ==
    (<<KB, "wheat.varieties">> :> <<"HD-2967", "PBW-343", "DBW-17">>)
    @@ (<<KB, "wheat.diseases">> :> <<"Rust", "Bunt", "Leaf blight">>)
    @@ (<<KB, "rice.varieties">> :> <<"Pusa-44", "IR-64", "Swarna">>)
    @@ (<<KB, "rice.diseases">> :> <<"Blast", "Sheath blight", "Brown spot">>)
    @@ (<<KB, "price_factors">> :> <<"Seasonal demand", "Weather conditions",
                                      "Government procurement", "Export policies",
                                      "Storage capacity">>)
    @@ (<<KB, "selling_tips">> :> <<"Monitor MSP announcements", "Check multiple mandis",
                                     "Consider storage costs", "Track festival seasons">>)

\* list.extend(items) and list.append(x) on the list object at address a
extend(h, a, items) == [h EXCEPT ![a] = @ \o items]
append(h, a, x) == extend(h, a, <<x>>)

\* list(d.values())
RECURSIVE values(_)
values(d) == IF d = <<>> THEN <<>> ELSE <<Head(d).value>> \o values(Tail(d))

\* mutation of title: the crop key as it is
titleOmitted(str) == str

\* str.title(): a letter after a non-letter is upper-cased, any other lower-cased
title(str) ==
    LET cs == Chars(str)
    IN  StrOf([i \in 1..Len(cs) |->
                  IF i = 1 \/ cs[i - 1] \notin LatinLetters
                  THEN UpperChar(cs[i]) ELSE LowerChar(cs[i])])

\* context = {'sources': [], 'facts': [], 'recommendations': []}: three new
\* lists, owned by `slot`
NewContext(slot) ==
    [sources |-> <<slot, "sources">>, facts |-> <<slot, "facts">>,
     recommendations |-> <<slot, "recommendations">>]

\* the three lists of a context, by value
ContextValue(h, context) ==
    [sources |-> h[context.sources], facts |-> h[context.facts],
     recommendations |-> h[context.recommendations]]

\* mutation of MarketContext: the receiver and the argument of extend swapped
MarketContextSwapped(h, context, market_info) ==
    append(extend(h, market_info.selling_tips, h[context.facts]),
           context.sources, "Market Intelligence")

\* context['facts'].extend(market_info['selling_tips'])
\* context['sources'].append("Market Intelligence")
MarketContext(h, context, market_info) ==
    append(extend(h, context.facts, h[market_info.selling_tips]),
           context.sources, "Market Intelligence")

\* Retrieve relevant context from knowledge base: the heap afterwards and the
\* context returned
retrieve_context(kb, h, slot, intent, entities) ==
    LET context == NewContext(slot)
        h0 == [h EXCEPT ![context.sources] = <<>>, ![context.facts] = <<>>,
                        ![context.recommendations] = <<>>]
        \* Crop-specific information
        h1 == IF "crop" \in DOMAIN entities /\ entities["crop"] \in DOMAIN kb.crops
              THEN LET crop == entities["crop"]
                       crop_info == kb.crops[crop]
                   IN  append(
                         extend(h0, context.facts,
                                <<"Sowing season: " \o crop_info.sowing_season,
                                  "Water requirement: " \o crop_info.water_requirement,
                                  "Recommended fertilizer: " \o crop_info.fertilizer>>),
                         context.sources, "Crop Database - " \o title(crop))
              ELSE h0
        \* Intent-specific guidelines
        h2 == IF intent = "irrigation"
              THEN LET weather_guide == kb.weather_guidelines.irrigation
                   IN  append(extend(h1, context.recommendations, values(weather_guide)),
                              context.sources, "Irrigation Best Practices")
              ELSE IF intent = "market"
              THEN MarketContext(h1, context, kb.market_insights)
              ELSE h1
    IN  [heap |-> h2, context |-> context]

\* d.get(k, default)
get(d, k, default) == IF k \in DOMAIN d THEN d[k] ELSE default

\* d.update(patch)
update(d, patch) == patch @@ d

\* str(n) of an int
RECURSIVE NatToStr(_)
NatToStr(n) ==
    LET digit == SubSeq("0123456789", (n % 10) + 1, (n % 10) + 1)
    IN  IF n < 10 THEN digit ELSE NatToStr(n \div 10) \o digit

IntToStr(n) == IF n < 0 THEN "-" \o NatToStr(-n) ELSE NatToStr(n)

\* a real-time value that is an int or a str
IntVal(n) == [int |-> n]
StrVal(s) == [str |-> s]

\* str(x), and the {x} of an f-string
str(x) == IF "int" \in DOMAIN x THEN IntToStr(x.int) ELSE x.str

\* c in s
contains(c, s) == \E i \in 1..Len(s) : SubSeq(s, i, i) = c

\* the defaults of the real-time fields
DefaultTemperature == 25
\* mutation of DefaultHumidity: the default of the temperature
DefaultHumidityAsTemperature == DefaultTemperature
DefaultHumidity == 60
DefaultPrice == 0
DefaultChange == StrVal("N/A")

\* real_time_data.get('weather', {}).get('current', {})
CurrentWeather(real_time_data) == get(get(real_time_data, "weather", EmptyDict), "current", EmptyDict)

HighHumidity == 80
LowHumidity == 40

\* mutation of IsHighHumidity: 80 counts as high
IsHighHumidityFrom80(humidity) == humidity >= HighHumidity

\* if humidity > 80: ... elif humidity < 40: ...
IsHighHumidity(humidity) == humidity > HighHumidity
IsLowHumidity(humidity) == humidity < LowHumidity

\* Generate weather-based agricultural advice
_generate_weather_response(entities, context, real_time_data) ==
    LET weather == CurrentWeather(real_time_data)
        temp == get(weather, "temperature", DefaultTemperature)
        humidity == get(weather, "humidity", DefaultHumidity)
        advice == "Current conditions: " \o IntToStr(temp) \o "<U+00B0>C, "
                  \o IntToStr(humidity) \o "% humidity. "
    IN  IF IsHighHumidity(humidity)
        THEN [primary_advice |-> advice
                  \o "High humidity detected. Delay irrigation and avoid fungicide spray.",
              action_items |-> <<"Skip irrigation today", "Monitor for fungal diseases">>,
              confidence_score |-> D0_9]
        ELSE IF IsLowHumidity(humidity)
        THEN [primary_advice |-> advice \o "Low humidity. Increase irrigation frequency.",
              action_items |-> <<"Provide extra watering", "Mulch around plants">>,
              confidence_score |-> D0_9]
        ELSE [primary_advice |-> advice \o "Good conditions for normal farming activities.",
              action_items |-> <<"Continue regular irrigation", "Good time for field operations">>,
              confidence_score |-> D0_9]

\* mutation of IsRising: rising unless the change has a minus sign
IsRisingUnlessMinus(change) == ~contains("-", str(change))

\* if '+' in str(change)
IsRising(change) == contains("+", str(change))

\* Generate market-based selling advice
_generate_market_response(entities, context, real_time_data) ==
    LET market == get(real_time_data, "market", EmptyDict)
        price == get(market, "price", DefaultPrice)
        change == get(market, "change", DefaultChange)
        crop == get(entities, "crop", "your crop")
        advice == "Current " \o crop \o " price: <U+20B9>" \o IntToStr(price)
                  \o "/quintal (" \o str(change) \o "). "
    IN  IF IsRising(change)
        THEN [primary_advice |-> advice \o "Prices are rising. Good time to sell.",
              action_items |-> <<"Sell immediately if ready", "Check nearby mandis for best rates">>,
              confidence_score |-> D0_8]
        ELSE [primary_advice |-> advice \o "Prices declining. Consider waiting if possible.",
              action_items |-> <<"Store safely if possible", "Monitor price trends for 1 week">>,
              confidence_score |-> D0_8]

HotTemperature == 30

\* Generate fertilizer recommendations
_generate_fertilizer_response(kb, entities, context, real_time_data) ==
    LET crop == get(entities, "crop", "wheat")
    IN  IF crop \in DOMAIN kb.crops
        THEN LET fertilizer == kb.crops[crop].fertilizer
                 advice == "For " \o crop \o ": Apply " \o fertilizer \o ". "
                 weather == CurrentWeather(real_time_data)
                 temp == get(weather, "temperature", DefaultTemperature)
             IN  IF temp > HotTemperature
                 THEN [primary_advice |-> advice \o "High temperature - apply in evening.",
                       action_items |-> <<"Apply after 5 PM", "Water lightly after application">>,
                       confidence_score |-> D0_85]
                 ELSE [primary_advice |-> advice \o "Good conditions for fertilizer application.",
                       action_items |-> <<"Apply in morning hours", "Incorporate into soil">>,
                       confidence_score |-> D0_85]
        ELSE [primary_advice |-> "General fertilizer recommendation: NPK 120:60:60 kg/hectare",
              action_items |-> <<"Soil test recommended", "Split application advised">>,
              confidence_score |-> D0_85]

FungalHumidity == 75

\* Generate pest management advice.  The source file ends inside the second
\* warning string of the returned dict; the dict is modelled with the keys
\* and the text the file holds.
_generate_pest_response(entities, context, real_time_data) ==
    LET crop == get(entities, "crop", "crop")
        advice == "For " \o crop \o " pest management: Regular monitoring essential. "
        weather == CurrentWeather(real_time_data)
        humidity == get(weather, "humidity", DefaultHumidity)
        warnings == <<"Always read pesticide labels", "Use protective">>
    IN  IF humidity > FungalHumidity
        THEN [primary_advice |-> advice \o "High humidity increases fungal disease risk.",
              action_items |-> <<"Spray preventive fungicide", "Improve air circulation">>,
              warnings |-> warnings]
        ELSE [primary_advice |-> advice \o "Current conditions moderate for pest activity.",
              action_items |-> <<"Weekly field monitoring", "Use pheromone traps">>,
              warnings |-> warnings]

\* The scheme builder is not in the source file.  Spec 4.6: a deterministic
\* default advice and at least one action item; untouched fields keep the
\* base values.
_generate_scheme_response(entities, context, real_time_data) ==
    [primary_advice |-> "scheme: default advice",
     action_items |-> <<"scheme: default action">>]

\* The general fallback builder is not in the source file (spec 4.6, as above).
_generate_general_response(entities, context, real_time_data) ==
    [primary_advice |-> "general: default advice",
     action_items |-> <<"general: default action">>]

\* Generate comprehensive response using RAG approach: the response dict,
\* whose 'sources' is the list object of the context
generate_response(kb, intent, entities, context, real_time_data) ==
    LET response == [primary_advice |-> "",
                     detailed_explanation |-> "",
                     action_items |-> <<>>,
                     confidence_score |-> D0_85,
                     sources |-> context.sources,
                     warnings |-> <<>>]
    IN  IF intent = "weather" \/ intent = "irrigation"
        THEN update(response, _generate_weather_response(entities, context, real_time_data))
        ELSE IF intent = "market"
        THEN update(response, _generate_market_response(entities, context, real_time_data))
        ELSE IF intent = "fertilizer"
        THEN update(response, _generate_fertilizer_response(kb, entities, context, real_time_data))
        ELSE IF intent = "pest"
        THEN update(response, _generate_pest_response(entities, context, real_time_data))
        ELSE IF intent = "scheme"
        THEN update(response, _generate_scheme_response(entities, context, real_time_data))
        ELSE update(response, _generate_general_response(entities, context, real_time_data))

\* the response as its reader sees it: the 'sources' list by value
ResponseValue(h, response) == [response EXCEPT !.sources = h[@]]

----------------------------------------------------------------------------
(* Inputs *)

MaxWords == 2      \* words of a query
MaxReps == 5       \* repetitions of the first word of a query
MaxSlots == 2      \* pipeline requests in flight

Slots == 1..MaxSlots

Repeat(w, r) == [i \in 1..r |-> w]

RECURSIVE Join(_)
Join(ws) ==
    IF ws = <<>> THEN <<>>
    ELSE IF Len(ws) = 1 THEN ws[1]
    ELSE ws[1] \o <<" ">> \o Join(Tail(ws))

WordSeqs(vocab) == UNION {[1..k -> vocab] : k \in 1..MaxWords}

\* queries for extract_intent: the first word repeated, then the other words
IntentVocab ==
    {Chars("kab paani de"), Chars("xyz qwerty"), Chars("watering"), Chars("UREA"),
     Chars("market rate")}

IntentTexts ==
    {<<>>} \cup {Join(Repeat(ws[1], r) \o Tail(ws)) : ws \in WordSeqs(IntentVocab), r \in 1..MaxReps}

\* queries for extract_entities and detect_language
EntityVocab ==
    {Chars("mujhe 5 kg"), Chars("aloo chahiye"), Chars("rice"), Chars("WHEAT"), Chars("up"),
     Chars("Punjab"), <<"U0917", "U0947", "U0939", "U0942", "U0902">>, Chars("12  acre"),
     <<"U0967", "U0968">>, Chars("ton")}

EntityTexts == {<<>>} \cup {Join(ws) : ws \in WordSeqs(EntityVocab)}

IntentLabels ==
    {"weather", "irrigation", "market", "fertilizer", "pest", "scheme", "crop", "general"}

EntitySamples ==
    {EmptyDict, [crop |-> "wheat"], [crop |-> "rice"], [crop |-> "potato"],
     [crop |-> "wheat", location |-> "up", quantity |-> "5", unit |-> "kg"]}

SourceSamples == {<<>>, <<"Crop Database - Wheat", "Market Intelligence">>}

Temperatures == {25, 30, 31}
Humidities == {39, 40, 41, 60, 76, 80, 81, 85}
Prices == {0, 2100}
Changes == {StrVal("+5"), StrVal("-3"), StrVal("5"), StrVal("N/A"), StrVal("up +2%"), IntVal(5)}

\* a dict with the key k bound to one of vs, or without the key
Optional(k, vs) == {EmptyDict} \cup {k :> v : v \in vs}

CurrentSnapshots ==
    {t @@ h : t \in Optional("temperature", Temperatures), h \in Optional("humidity", Humidities)}
MarketSnapshots ==
    {p @@ c : p \in Optional("price", Prices), c \in Optional("change", Changes)}

\* the real-time snapshots: every field present or absent
Snapshots ==
    {w @@ m : w \in Optional("weather", Optional("current", CurrentSnapshots)),
              m \in Optional("market", MarketSnapshots)}

\* the inputs of the pipeline requests
PipelineTexts == {Chars("gehun mandi"), Chars("sinchai")}
PipelineSnapshots ==
    {EmptyDict,
     [weather |-> [current |-> [humidity |-> 85]],
      market |-> [price |-> 2100, change |-> StrVal("+5")]]}

----------------------------------------------------------------------------
(* The state after construction *)

SlotLists == {<<r, n>> : r \in Slots, n \in {"sources", "facts", "recommendations"}}

Idle == [op |-> "idle"]
NoRequest == [pc |-> "idle"]

Init ==
    /\ intent_patterns = IntentPatternTable
    /\ knowledge_base = KnowledgeBaseTable
    /\ heap = KnowledgeBaseLists @@ [a \in SlotLists |-> <<>>]
    /\ call = Idle
    /\ req = [r \in Slots |-> NoRequest]

\* the lists of a slot are dropped
Free(h, slot) ==
    [a \in DOMAIN h |-> IF a[1] = slot THEN <<>> ELSE h[a]]

----------------------------------------------------------------------------
(* Direct calls of the methods, one at a time *)

CallDetectLanguage ==
    /\ call = Idle
    /\ \E text \in EntityTexts :
          call' = [op |-> "detect_language", text |-> text, result |-> detect_language(text)]
    /\ UNCHANGED <<intent_patterns, knowledge_base, heap, req>>

CallExtractIntent ==
    /\ call = Idle
    /\ \E text \in IntentTexts :
          call' = [op |-> "extract_intent", text |-> text,
                   result |-> extract_intent(intent_patterns, text)]
    /\ UNCHANGED <<intent_patterns, knowledge_base, heap, req>>

CallExtractEntities ==
    /\ call = Idle
    /\ \E text \in EntityTexts :
          call' = [op |-> "extract_entities", text |-> text, result |-> extract_entities(text)]
    /\ UNCHANGED <<intent_patterns, knowledge_base, heap, req>>

CallRetrieveContext ==
    /\ call = Idle
    /\ \E intent \in IntentLabels, entities \in EntitySamples :
          LET out == retrieve_context(knowledge_base, heap, 1, intent, entities)
          IN  /\ heap' = out.heap
              /\ call' = [op |-> "retrieve_context", intent |-> intent, entities |-> entities,
                          result |-> ContextValue(out.heap, out.context)]
    /\ UNCHANGED <<intent_patterns, knowledge_base, req>>

CallGenerateResponse ==
    /\ call = Idle
    /\ \E intent \in IntentLabels, entities \in EntitySamples,
          sources \in SourceSamples, real_time_data \in Snapshots :
          LET context == NewContext(1)
              h == [heap EXCEPT ![context.sources] = sources]
              response == generate_response(knowledge_base, intent, entities, context,
                                            real_time_data)
          IN  /\ heap' = h
              /\ call' = [op |-> "generate_response", intent |-> intent,
                          entities |-> entities, real_time_data |-> real_time_data,
                          result |-> ResponseValue(h, response)]
    /\ UNCHANGED <<intent_patterns, knowledge_base, req>>

\* the caller is done with the result
Return ==
    /\ call # Idle
    /\ call' = Idle
    /\ heap' = Free(heap, 1)
    /\ UNCHANGED <<intent_patterns, knowledge_base, req>>

NextCalls ==
    \/ CallDetectLanguage
    \/ CallExtractIntent
    \/ CallExtractEntities
    \/ CallRetrieveContext
    \/ CallGenerateResponse
    \/ Return

SpecCalls == Init /\ [][NextCalls]_vars

----------------------------------------------------------------------------
(* The pipeline: requests in flight on one processor and one engine *)

Submit(r) ==
    /\ call = Idle
    /\ req[r].pc \in {"idle", "done"}
    /\ \E text \in PipelineTexts, real_time_data \in PipelineSnapshots :
          req' = [req EXCEPT ![r] = [pc |-> "language", text |-> text,
                                     real_time_data |-> real_time_data]]
    /\ heap' = Free(heap, r)
    /\ UNCHANGED <<intent_patterns, knowledge_base, call>>

DetectLanguage(r) ==
    /\ req[r].pc = "language"
    /\ req' = [req EXCEPT ![r] =
                  [pc |-> "intent", language |-> detect_language(req[r].text)] @@ @]
    /\ UNCHANGED <<intent_patterns, knowledge_base, heap, call>>

ExtractIntent(r) ==
    /\ req[r].pc = "intent"
    /\ LET out == extract_intent(intent_patterns, req[r].text)
       IN  req' = [req EXCEPT ![r] =
                      [pc |-> "entities", intent |-> out[1], confidence |-> out[2]] @@ @]
    /\ UNCHANGED <<intent_patterns, knowledge_base, heap, call>>

ExtractEntities(r) ==
    /\ req[r].pc = "entities"
    /\ req' = [req EXCEPT ![r] =
                  [pc |-> "context", entities |-> extract_entities(req[r].text)] @@ @]
    /\ UNCHANGED <<intent_patterns, knowledge_base, heap, call>>

RetrieveContext(r) ==
    /\ req[r].pc = "context"
    /\ LET out == retrieve_context(knowledge_base, heap, r, req[r].intent, req[r].entities)
       IN  /\ heap' = out.heap
           /\ req' = [req EXCEPT ![r] = [pc |-> "respond", context |-> out.context] @@ @]
    /\ UNCHANGED <<intent_patterns, knowledge_base, call>>

GenerateResponse(r) ==
    /\ req[r].pc = "respond"
    /\ req' = [req EXCEPT ![r] =
                  [pc |-> "done",
                   response |-> generate_response(knowledge_base, req[r].intent,
                                                  req[r].entities, req[r].context,
                                                  req[r].real_time_data)] @@ @]
    /\ UNCHANGED <<intent_patterns, knowledge_base, heap, call>>

Next ==
    \E r \in Slots :
        \/ Submit(r)
        \/ DetectLanguage(r)
        \/ ExtractIntent(r)
        \/ ExtractEntities(r)
        \/ RetrieveContext(r)
        \/ GenerateResponse(r)

Spec == Init /\ [][Next]_vars

----------------------------------------------------------------------------
(* What the claims speak of, stated apart from the operators above *)

\* the declaration order of the intents, the crops and the locations
IntentOrder == <<"weather", "irrigation", "market", "fertilizer", "pest", "scheme", "crop">>
CropOrder == <<"wheat", "rice", "cotton", "sugarcane", "potato", "tomato", "onion">>
LocationOrder == <<"delhi", "punjab", "haryana", "up", "bihar", "maharashtra">>

\* one of the alternatives of the pattern is a substring of s
OccursAny(alts, s) ==
    \E k \in 1..Len(alts) :
        \E i \in 1..(Len(s) - Len(alts[k]) + 1) : SubSeq(s, i, i + Len(alts[k]) - 1) = alts[k]

Occurs(pattern, s) == OccursAny(Alternatives(pattern), s)

\* the number of pattern occurrences of each intent, in declaration order
RECURSIVE SumMatches(_, _)
SumMatches(patterns, s) ==
    IF patterns = <<>> THEN 0 ELSE findall_len(Head(patterns), s) + SumMatches(Tail(patterns), s)

RECURSIVE MatchCounts(_, _)
MatchCounts(table, s) ==
    IF table = <<>> THEN <<>>
    ELSE <<SumMatches(Head(table).value, s)>> \o MatchCounts(Tail(table), s)

MaxCount(counts) == CHOOSE m \in {counts[k] : k \in 1..Len(counts)} :
                        \A k \in 1..Len(counts) : counts[k] <= m

FirstWithMax(counts) == Min({k \in 1..Len(counts) : counts[k] = MaxCount(counts)})

\* the number of pattern occurrences of one intent, 0 for an intent without patterns
RECURSIVE CountOf(_, _, _)
CountOf(table, intent, s) ==
    IF table = <<>> THEN 0
    ELSE IF Head(table).key = intent THEN SumMatches(Head(table).value, s)
    ELSE CountOf(Tail(table), intent, s)

InUnitInterval(d) == DLeq(D0, d) /\ DLeq(d, D1)

\* the field of a snapshot, or the documented default when any part of the
\* path to it is absent
HasCurrent(rtd, k) ==
    /\ "weather" \in DOMAIN rtd
    /\ "current" \in DOMAIN rtd["weather"]
    /\ k \in DOMAIN rtd["weather"]["current"]
HasMarket(rtd, k) == "market" \in DOMAIN rtd /\ k \in DOMAIN rtd["market"]

TemperatureOf(rtd) ==
    IF HasCurrent(rtd, "temperature") THEN rtd["weather"]["current"]["temperature"] ELSE 25
HumidityOf(rtd) ==
    IF HasCurrent(rtd, "humidity") THEN rtd["weather"]["current"]["humidity"] ELSE 60
PriceOf(rtd) == IF HasMarket(rtd, "price") THEN rtd["market"]["price"] ELSE 0
ChangeOf(rtd) == IF HasMarket(rtd, "change") THEN rtd["market"]["change"] ELSE [str |-> "N/A"]

\* the snapshot with every absent field replaced by its default
Filled(rtd) ==
    [weather |-> [current |-> [temperature |-> TemperatureOf(rtd), humidity |-> HumidityOf(rtd)]],
     market |-> [price |-> PriceOf(rtd), change |-> ChangeOf(rtd)]]

----------------------------------------------------------------------------
(* The claims *)

\* C1: extract_intent("kab paani de") is the intent irrigation with a
\* confidence of at least 0.3.
C1_KabPaaniDeIsIrrigation ==
    (call.op = "extract_intent" /\ call.text = Chars("kab paani de"))
        => (call.result[1] = "irrigation" /\ DLeq(D0_3, call.result[2]))

\* C2: extract_intent returns the first intent, in declaration order, among
\* those with the largest number of pattern occurrences; the result depends
\* on the per-intent match counts only.
TieGoesToFirstDeclared(counts, result) ==
    MaxCount(counts) > 0 => result[1] = IntentOrder[FirstWithMax(counts)]

C2_TieGoesToFirstDeclared ==
    call.op = "extract_intent"
        => TieGoesToFirstDeclared(MatchCounts(IntentPatternTable, lower(call.text)), call.result)


\* C3: when no pattern of any intent occurs in the text, extract_intent
\* returns exactly ('general', 0.5), and whenever some pattern occurs it
\* returns one of the seven table intents; extract_entities of the empty
\* text is the empty entity set.
RECURSIVE AnyOccurs(_, _)
AnyOccurs(table, s) ==
    IF table = <<>> THEN FALSE
    ELSE \/ \E p \in 1..Len(Head(table).value) : Occurs(Head(table).value[p], s)
         \/ AnyOccurs(Tail(table), s)

GeneralIffNoPattern(occurs, result) ==
    IF occurs THEN \E k \in 1..Len(IntentOrder) : result[1] = IntentOrder[k]
    ELSE result = <<"general", D0_5>>

C3_GeneralIffNoPattern ==
    /\ call.op = "extract_intent"
          => GeneralIffNoPattern(AnyOccurs(IntentPatternTable, lower(call.text)), call.result)
    /\ (call.op = "extract_entities" /\ call.text = <<>>) => call.result = EmptyDict

C3_Witness ==
    /\ call.op = "extract_intent"
    /\ call.text = Chars("xyz qwerty")
    /\ call.result = <<"general", D0_5>>

\* C4: the confidence of extract_intent is min(0.3 x the number of pattern
\* occurrences of the winning intent, 1.0) when some pattern matched (so at
\* least 0.3 and at most 1.0) and 0.5 otherwise; the confidence_score of
\* every Response of generate_response is in [0, 1].
ConfidenceOfCount(n, result) ==
    /\ InUnitInterval(result[2])
    /\ IF result[1] = "general"
       THEN result[2] = D0_5
       ELSE /\ n > 0
            /\ result[2] = DMin(DMul(n, D0_3), D1)
            /\ DLeq(D0_3, result[2])

C4_ConfidenceInUnitInterval ==
    /\ call.op = "extract_intent"
          => ConfidenceOfCount(
                 CountOf(IntentPatternTable, call.result[1], lower(call.text)),
                 call.result)
    /\ call.op = "generate_response" => InUnitInterval(call.result.confidence_score)

C4_Witness ==
    /\ call.op = "extract_intent"
    /\ call.text = Chars("market rate market rate")
    /\ call.result = <<"market", D1>>

\* C5: after any interleaving of requests, the knowledge base and the intent
\* pattern table are as constructed, and two finished requests with the same
\* (text, real_time_data) hold the same Response.
Done(r) == req[r].pc = "done"

C5_PipelineIsPure ==
    /\ intent_patterns = IntentPatternTable
    /\ knowledge_base = KnowledgeBaseTable
    /\ \A a \in DOMAIN KnowledgeBaseLists : heap[a] = KnowledgeBaseLists[a]
    /\ \A r1, r2 \in Slots :
          (/\ Done(r1) /\ Done(r2)
           /\ req[r1].text = req[r2].text
           /\ req[r1].real_time_data = req[r2].real_time_data)
          => ResponseValue(heap, req[r1].response) = ResponseValue(heap, req[r2].response)

C5_Witness ==
    /\ \A r \in Slots : Done(r) /\ req[r].text = Chars("gehun mandi")
    /\ \A r1, r2 \in Slots : req[r1].real_time_data = req[r2].real_time_data
    /\ \A r \in Slots : Len(heap[req[r].context.facts]) = 7

\* C6: for intent weather or irrigation the action items follow from the
\* humidity alone (60 when absent): above 80 the skip-irrigation items with
\* confidence 0.9, below 40 the extra-watering items, otherwise (40 and 80
\* included) the regular-irrigation items.
HumidityDecidesActions(humidity, response) ==
    /\ humidity > 80 =>
          /\ response.action_items = <<"Skip irrigation today", "Monitor for fungal diseases">>
          /\ response.confidence_score = D0_9
    /\ humidity < 40 =>
          response.action_items = <<"Provide extra watering", "Mulch around plants">>
    /\ (humidity >= 40 /\ humidity <= 80) =>
          response.action_items = <<"Continue regular irrigation", "Good time for field operations">>

C6_HumidityDecidesActions ==
    (call.op = "generate_response" /\ call.intent \in {"weather", "irrigation"})
        => HumidityDecidesActions(HumidityOf(call.real_time_data), call.result)

C6_Witness ==
    /\ call.op = "generate_response"
    /\ call.intent = "weather"
    /\ HasCurrent(call.real_time_data, "humidity")
    /\ HumidityOf(call.real_time_data) = 85
    /\ call.result.action_items = <<"Skip irrigation today", "Monitor for fungal diseases">>
    /\ call.result.confidence_score = D0_9

\* C7: for intent market the confidence is 0.8 and the advice names the
\* entity's crop ("your crop" without one), the price and the change; it is
\* the rising-price advice exactly when the change, as a string, contains
\* '+', and the declining-price advice in every other case.
HasPlus(s) == \E i \in 1..Len(s) : SubSeq(s, i, i) = "+"

MarketAdvice(crop, price, change, response) ==
    /\ response.confidence_score = D0_8
    /\ IF HasPlus(change)
       THEN /\ response.primary_advice =
                   "Current " \o crop \o " price: <U+20B9>" \o price \o "/quintal ("
                   \o change \o "). Prices are rising. Good time to sell."
            /\ response.action_items =
                   <<"Sell immediately if ready", "Check nearby mandis for best rates">>
       ELSE /\ response.primary_advice =
                   "Current " \o crop \o " price: <U+20B9>" \o price \o "/quintal ("
                   \o change \o "). Prices declining. Consider waiting if possible."
            /\ response.action_items =
                   <<"Store safely if possible", "Monitor price trends for 1 week">>

C7_MarketAdvice ==
    (call.op = "generate_response" /\ call.intent = "market")
        => MarketAdvice(
               IF "crop" \in DOMAIN call.entities THEN call.entities["crop"] ELSE "your crop",
               IntToStr(PriceOf(call.real_time_data)),
               str(ChangeOf(call.real_time_data)),
               call.result)

C7_Witness ==
    /\ call.op = "generate_response"
    /\ call.intent = "market"
    /\ call.entities = [crop |-> "wheat"]
    /\ HasMarket(call.real_time_data, "change")
    /\ ChangeOf(call.real_time_data) = [str |-> "+5"]
    /\ call.result.action_items = <<"Sell immediately if ready", "Check nearby mandis for best rates">>

\* C8: for every intent and every snapshot with any subset of its fields
\* absent, generate_response returns the Response it returns for the
\* snapshot with each absent field replaced by its default (temperature 25,
\* humidity 60, price 0, change "N/A").
C8_MissingFieldsDefault ==
    call.op = "generate_response"
        => call.result =
              ResponseValue(heap, generate_response(knowledge_base, call.intent, call.entities,
                                                    NewContext(1), Filled(call.real_time_data)))

C8_Witness ==
    /\ call.op = "generate_response"
    /\ call.intent = "irrigation"
    /\ call.real_time_data = [weather |-> EmptyDict]
    /\ call.result.primary_advice =
          "Current conditions: 25<U+00B0>C, 60% humidity. Good conditions for normal farming activities."


\* C9: extract_entities returns exactly this entity set: crop is the first
\* crop, in table order, whose pattern occurs in the lower-cased text and is
\* absent when none occurs; location likewise; quantity and unit hold the
\* digits and the unit of the first 'integer, optional spaces, unit'
\* occurrence or are both absent; there is no other key.
FirstOccurring(table, s) ==
    {k \in 1..Len(table) :
        Occurs(table[k].value, s) /\ \A m \in 1..(k - 1) : ~Occurs(table[m].value, s)}

FirstInOrder(order, first, key, result) ==
    IF first = {} THEN key \notin DOMAIN result
    ELSE key \in DOMAIN result /\ \A k \in first : result[key] = order[k]

UnitWords == {Chars("kg"), Chars("quintal"), Chars("ton"), Chars("acre"), Chars("hectare")}

\* the first position after i that holds no character of `class`
EndOfRun(s, i, class) == Min({j \in i..(Len(s) + 1) : j > Len(s) \/ s[j] \notin class})

UnitsAt(s, k) == {u \in UnitWords : k + Len(u) - 1 <= Len(s) /\ SubSeq(s, k, k + Len(u) - 1) = u}

\* the positions where an integer followed by a unit starts
QuantityStarts(s) ==
    {i \in 1..Len(s) :
        /\ s[i] \in DecimalDigits
        /\ UnitsAt(s, EndOfRun(s, EndOfRun(s, i, DecimalDigits), Whitespace)) # {}}

QuantityIs(s, starts, result) ==
    IF starts = {} THEN "quantity" \notin DOMAIN result /\ "unit" \notin DOMAIN result
    ELSE /\ "quantity" \in DOMAIN result
         /\ "unit" \in DOMAIN result
         /\ result["quantity"] =
               StrOf(SubSeq(s, Min(starts), EndOfRun(s, Min(starts), DecimalDigits) - 1))
         /\ Chars(result["unit"]) \in
               UnitsAt(s, EndOfRun(s, EndOfRun(s, Min(starts), DecimalDigits), Whitespace))

EntitySetIs(s, result) ==
    /\ DOMAIN result \subseteq {"crop", "location", "quantity", "unit"}
    /\ FirstInOrder(CropOrder, FirstOccurring(crops, s), "crop", result)
    /\ FirstInOrder(LocationOrder, FirstOccurring(locations, s), "location", result)
    /\ QuantityIs(s, QuantityStarts(s), result)

C9_EntitySet ==
    /\ call.op = "extract_entities" => EntitySetIs(lower(call.text), call.result)
    /\ (call.op = "extract_entities" /\ call.text = Chars("mujhe 5 kg aloo chahiye"))
          => call.result = [crop |-> "potato", quantity |-> "5", unit |-> "kg"]

C9_Witness ==
    /\ call.op = "extract_entities"
    /\ call.text = Chars("aloo chahiye rice")
    /\ "crop" \in DOMAIN call.result
    /\ call.result["crop"] = "rice"

\* C10: retrieve_context fills the Context in a fixed order: the three crop
\* facts and the source "Crop Database - <Crop>" first, for a crop of the
\* knowledge base (wheat, rice) only; then for intent irrigation the three
\* guidelines and "Irrigation Best Practices", for intent market the four
\* selling tips after the crop facts and "Market Intelligence"; nothing for
\* any other intent, so sources has at most two entries.
HasCrop(entities, crop) == "crop" \in DOMAIN entities /\ entities["crop"] = crop

CropFacts(entities) ==
    IF HasCrop(entities, "wheat")
    THEN <<"Sowing season: Rabi (October-December)",
           "Water requirement: Medium (4-6 irrigations)",
           "Recommended fertilizer: NPK 120:60:40 kg/hectare">>
    ELSE IF HasCrop(entities, "rice")
    THEN <<"Sowing season: Kharif (May-July)",
           "Water requirement: High (standing water)",
           "Recommended fertilizer: NPK 100:50:50 kg/hectare">>
    ELSE <<>>

CropSources(entities) ==
    IF HasCrop(entities, "wheat") THEN <<"Crop Database - Wheat">>
    ELSE IF HasCrop(entities, "rice") THEN <<"Crop Database - Rice">>
    ELSE <<>>

ExpectedContext(intent, entities) ==
    [sources |-> CropSources(entities)
                 \o (IF intent = "irrigation" THEN <<"Irrigation Best Practices">>
                     ELSE IF intent = "market" THEN <<"Market Intelligence">> ELSE <<>>),
     facts |-> CropFacts(entities)
               \o (IF intent = "market"
                   THEN <<"Monitor MSP announcements", "Check multiple mandis",
                          "Consider storage costs", "Track festival seasons">>
                   ELSE <<>>),
     recommendations |->
         IF intent = "irrigation"
         THEN <<"Delay irrigation if humidity >80%",
                "Skip irrigation if rain expected within 24 hours",
                "Best irrigation time: early morning or evening">>
         ELSE <<>>]

C10_ContextInsertionOrder ==
    call.op = "retrieve_context"
        => /\ call.result = ExpectedContext(call.intent, call.entities)
           /\ Len(call.result.sources) <= 2

C10_Witness ==
    /\ call.op = "retrieve_context"
    /\ call.intent = "market"
    /\ HasCrop(call.entities, "wheat")
    /\ call.result.sources = <<"Crop Database - Wheat", "Market Intelligence">>
    /\ Len(call.result.facts) = 7

=============================================================================
